---- MODULE Spec2Model ----
(***************************************************************************)
(* Verification model of gqlc: the command-line driver (cmd/cli.go,        *)
(* cmd/gqlc/root.go) and the plugin Generator (plugin/plugin.go).          *)
(*                                                                         *)
(* Spec        the compile pipeline: Run -> Execute -> PersistentPreRunE   *)
(*             -> runRoot (select generators, parse, check, generate).     *)
(* SpecCli     the same pipeline under any flags on each command line,    *)
(*             over runs of a single input file.                           *)
(* SpecRegister  RegisterGenerator calls on one CommandLine.               *)
(* SpecTwice   runs of the pipeline repeated with the same arguments in    *)
(*             the same environment.                                       *)
(* SpecE2E     one run of the pipeline with the JavaScript Generator       *)
(*             called by the generation loop.                              *)
(* SpecPlugin  a sequence of Generate calls on one plugin.Generator.       *)
(* SpecConcurrent  two callers in Generate on one plugin.Generator.        *)
(* SpecGenerators  Generate calls on the plugin Generator or on the        *)
(*             JavaScript Generator (plugin/plugin.go).                    *)
(* SpecOptions  calls on the JavaScript Generator over the documents and   *)
(*             option maps that exercise getOptions.                       *)
(* SpecJsConcurrent  two callers in Generate on one JavaScript Generator.  *)
(***************************************************************************)
EXTENDS Integers, Sequences, FiniteSets, TLC

\* ---------------------------------------------------------------- bounds
MaxArgs == 2        \* positional arguments of one Run
MaxRuns == 2        \* Run calls on one CommandLine
MaxDiags == 1       \* diagnostics util.CheckTypes may return
MaxCalls == 3       \* Generate calls on one plugin Generator
MaxFiles == 2       \* files in one plugin Response
MaxRegs == 3        \* RegisterGenerator calls on one CommandLine

\* ------------------------------------------------------------ error values
\* A Go error is a record; the nil error is the record of kind "nil".
NoErr == [kind |-> "nil", msg |-> <<>>, stack |-> "none"]

Err(k, m) == [kind |-> k, msg |-> m, stack |-> "none"]

IsNil(e) == e.kind = "nil"

\* --------------------------------------------------------------- file names
\* A file name is a sequence of tokens; "." and "/" are the dot and the path
\* separator, every other token is a run of letters.
FileNames ==
    { <<"a", ".", "gql">>,
      <<"b", ".", "graphql">>,
      <<"c", ".", "txt">>,
      <<"d", ".", "gql", "/", "e">> }

\* path/filepath.Ext: the suffix beginning at the final dot in the final
\* element of path; empty if there is no dot.
RECURSIVE ExtFrom(_, _)
ExtFrom(path, i) ==
    IF i < 1 \/ path[i] = "/" THEN <<>>
    ELSE IF path[i] = "." THEN SubSeq(path, i, Len(path))
    ELSE ExtFrom(path, i - 1)

Ext(path) == ExtFrom(path, Len(path))

\* strings.TrimPrefix(s, ".")
TrimPrefix(s) == IF Len(s) > 0 /\ s[1] = "." THEN Tail(s) ELSE s

\* root.go:52-53, the test of one file name
ValidExt(fileName) ==
    LET ext == TrimPrefix(Ext(fileName))
    IN  ~(ext # <<"gql">> /\ ext # <<"graphql">>)

\* ------------------------------------------------------------------- flags
\* The flags of rootCmd.  geners maps the names of generator flags to their
\* generators; "verbose" is a local flag that is not in geners, and so is
\* "doc_opt", the options flag registered along with "doc_out".
FlagNames == {"doc_opt", "doc_out", "js_out", "verbose"}

geners == {"doc_out", "js_out"}

\* Lexicographical rank of a flag name (pflag sorts flags by name).
FlagRank == [doc_opt |-> 0, doc_out |-> 1, js_out |-> 2, verbose |-> 3]

RECURSIVE SortedFlags(_)
SortedFlags(S) ==
    IF S = {} THEN <<>>
    ELSE LET f == CHOOSE x \in S : \A y \in S : FlagRank[x] <= FlagRank[y]
         IN  <<f>> \o SortedFlags(S \ {f})

\* The generator flags in the order RegisterGenerator is called for them.
Registered == <<"doc_out", "js_out">>

Range(s) == { s[i] : i \in 1..Len(s) }

SeqsUpTo(S, n) == UNION { [1..k -> S] : k \in 0..n }

\* ------------------------------------------------------------ panic values
\* The value handed to panic(): an error, a value of another type, or nil.
PanicValues ==
    { [type |-> "error", v |-> "boom"],
      [type |-> "string", v |-> "boom"],
      [type |-> "nil", v |-> "nil"] }

NotPanicking == [type |-> "none", v |-> "none"]

\* What recover() returns for a panic value.  A non-nil value is returned as
\* it is.  For panic(nil) the result depends on the toolchain: nil before
\* Go 1.21 (and with GODEBUG=panicnil=1), a *runtime.PanicNilError after.
Recovered(p) ==
    IF p.type = "none" THEN { [type |-> "nil", v |-> "nil"] }
    ELSE IF p.type = "nil"
         THEN { [type |-> "nil", v |-> "nil"],
                [type |-> "error", v |-> "PanicNilError"] }
         ELSE { p }

\* runtime/debug.Stack(): the formatted stack trace, never empty.
Stack == "goroutine 1 [running]"

\* cli.go:134-136
wrapPanic(e, stack) ==
    [kind |-> "panic",
     msg |-> <<"gqlc: recovered from unexpected panic", e.msg>>,
     stack |-> stack]

\* ---------------------------------------------------------------- variables
VARIABLES
    runs,        \* number of Run calls made on the CommandLine
    pc,          \* position of the current Run
    args,        \* positional arguments of the current Run
    changed,     \* flags whose pflag.Flag.Changed is set
    given,       \* flags given on the command line of the current Run
    outDirs,     \* CommandLine.outDirs
    mkdirs,      \* history: the MkdirAll calls of initGenDirs in this Run
    mode,        \* runRoot: parser mode
    gs,          \* runRoot: the selected generators, in visiting order
    docs,        \* runRoot: the docs map, as the set of its keys
    fi,          \* runRoot: index into args of the parse loop
    errs,        \* runRoot: number of diagnostics of util.CheckTypes
    gi,          \* runRoot: index into gs of the generation loop
    remaining,   \* runRoot: keys of docs not yet visited by the inner range
    err,         \* the error returned by Execute (runRoot's named result)
    panicking,   \* the value of a panic raised in this Run
    result,      \* the error returned by Run
    opened,      \* history: files handed to os.Open in this Run
    parsed,      \* history: files parsed successfully in this Run
    checked,     \* history: util.CheckTypes has returned in this Run
    calls,       \* history: the Generate calls of this Run, with their results
    g,           \* the plugin Generator: Cmd, lookOnce, path, lookPathErr
    call,        \* per caller: the locals of its Generate call on g
    lookups,     \* history: number of exec.LookPath calls made for g
    ncalls,      \* history: number of Generate calls begun on g
    js,          \* the JavaScript Generator: its mutex, buffer and logger
    jsc,         \* per caller: the locals of its Generate call on js
    njs,         \* history: number of Generate calls begun on js
    formal,      \* the flags of the CommandLine, in the order they were added
    lastReg,     \* history: the last RegisterGenerator call and how it ended
    nregs,       \* history: number of RegisterGenerator calls made
    failing,     \* environment: the <<generator, document>> pairs whose
                 \* Generate call fails when runs are compared
    prev         \* history: how the Run before the current one ended

pipeVars ==
    <<runs, pc, args, changed, given, outDirs, mkdirs, mode, gs, docs, fi,
      errs, gi,
      remaining, err, panicking, result, opened, parsed, checked, calls>>

plugVars == <<g, call, lookups, ncalls>>

jsVars == <<js, jsc, njs>>

regVars == <<formal, lastReg, nregs>>

envVars == <<failing, prev>>

vars == <<pipeVars, plugVars, jsVars, regVars, envVars>>

\* What the steps of one part of the program leave alone.
notPipe == <<plugVars, jsVars, regVars, envVars>>

notPlug == <<pipeVars, jsVars, regVars, envVars>>

notJs == <<pipeVars, plugVars, regVars, envVars>>

notReg == <<pipeVars, plugVars, jsVars, envVars>>

runLocals == <<mode, gs, docs, fi, errs, gi, remaining>>

history == <<opened, parsed, checked, calls>>

ProgName == <<"gqlc">>

\* -------------------------------------------------------------------- Init
PipeInit ==
    /\ runs = 0
    /\ pc = "idle"
    /\ args = <<>>
    /\ changed = {}
    /\ given = {}
    /\ outDirs = <<>>
    /\ mkdirs = <<>>
    /\ mode = "0"
    /\ gs = <<>>
    /\ docs = {}
    /\ fi = 1
    /\ errs = 0
    /\ gi = 1
    /\ remaining = {}
    /\ err = NoErr
    /\ panicking = NotPanicking
    /\ result = NoErr
    /\ opened = <<>>
    /\ parsed = <<>>
    /\ checked = FALSE
    /\ calls = <<>>

\* ------------------------------------------------------------------ actions
\* The value each generator flag is given on the command lines: its output
\* directory.
DirArg == [doc_out |-> "docs", js_out |-> "js"]

Dirs == { DirArg[f] : f \in geners }

\* genFlag.Set for the flag of a generator: the directory given as the value
\* of the flag is appended to the outDirs of the CommandLine.  (The entry is
\* tagged here with the flag it came from.)
Set(dirs, f) == Append(dirs, [gen |-> f, dir |-> DirArg[f]])

\* pflag, parsing the flags of a command line: Set is called on the value of
\* each flag given; only the flags of generators have an effect here.
RECURSIVE ParseFlags(_, _)
ParseFlags(dirs, flags) ==
    IF flags = <<>> THEN dirs
    ELSE ParseFlags(IF Head(flags) \in geners THEN Set(dirs, Head(flags))
                    ELSE dirs,
                    Tail(flags))

\* CommandLine.Run up to the call of Execute: the arguments without the
\* program name are set on the command and cobra parses the flags, which
\* sets Changed on each flag given (it is never cleared) and calls Set on
\* its value.  The flags are given in the order of their names.
RunStart(osArgs, ch) ==
    /\ pc \in {"idle", "done"}
    /\ runs < MaxRuns
    /\ runs' = runs + 1
    /\ args' = Tail(osArgs)
    /\ given' = ch
    /\ changed' = changed \cup ch
    /\ outDirs' = ParseFlags(outDirs, SortedFlags(ch))
    /\ mkdirs' = <<>>
    /\ pc' = "args"
    /\ mode' = "0"
    /\ gs' = <<>>
    /\ docs' = {}
    /\ fi' = 1
    /\ errs' = 0
    /\ gi' = 1
    /\ remaining' = {}
    /\ err' = NoErr
    /\ panicking' = NotPanicking
    /\ result' = NoErr
    /\ opened' = <<>>
    /\ parsed' = <<>>
    /\ checked' = FALSE
    /\ calls' = <<>>

Run(osArgs, ch) ==
    /\ RunStart(osArgs, ch)
    /\ UNCHANGED notPipe

\* The files a Run has left so far: one for each Generate call that returned
\* nil, of its generator for its document.
Written == { <<calls[i].gen, calls[i].doc>> :
               i \in { k \in 1..Len(calls) : IsNil(calls[k].res) } }

NoPrev == [done |-> FALSE, result |-> NoErr, written |-> {}]

\* A Run of which the one before is kept for comparison: the first Run is
\* as any, a later Run is given the arguments and flags of the one before.
RunAgain(osArgs, ch) ==
    /\ runs > 0 => (Tail(osArgs) = args /\ ch = given)
    /\ RunStart(osArgs, ch)
    /\ prev' = [done |-> runs > 0, result |-> result, written |-> Written]
    /\ UNCHANGED <<plugVars, jsVars, regVars, failing>>

\* rootCmd.Args, cobra.MinimumNArgs(1)
MinimumNArgs ==
    /\ pc = "args"
    /\ IF Len(args) < 1
       THEN /\ err' = Err("requires at least 1 arg(s)", <<>>)
            /\ pc' = "return"
       ELSE /\ err' = err
            /\ pc' = "prerun"
    /\ UNCHANGED notPipe
    /\ UNCHANGED <<runs, args, changed, given, outDirs, mkdirs, runLocals,
                   panicking, result, history>>

\* PersistentPreRunE as it would be if only the first file name were tested.
PersistentPreRunE_FirstOnly ==
    /\ pc = "prerun"
    /\ IF ~ValidExt(args[1])
       THEN /\ err' = Err("invalid file extension", args[1])
            /\ pc' = "return"
       ELSE /\ err' = err
            /\ pc' = "mkdir"
    /\ UNCHANGED notPipe
    /\ UNCHANGED <<runs, args, changed, given, outDirs, mkdirs, runLocals,
                   panicking, result, history>>

\* rootCmd.PersistentPreRunE: the first file name without a recognized
\* extension is reported.  (The command run here is gqlc itself; for the help
\* command the hook returns at once and runRoot is not run either.)
PersistentPreRunE ==
    /\ pc = "prerun"
    /\ LET bad == { i \in 1..Len(args) : ~ValidExt(args[i]) }
       IN  IF bad # {}
           THEN LET i == CHOOSE j \in bad : \A k \in bad : j <= k
                IN  /\ err' = Err("invalid file extension", args[i])
                    /\ pc' = "return"
           ELSE /\ err' = err
                /\ pc' = "mkdir"
    /\ UNCHANGED notPipe
    /\ UNCHANGED <<runs, args, changed, given, outDirs, mkdirs, runLocals,
                   panicking, result, history>>

\* initGenDirs: MkdirAll is called on the directories of outDirs in order,
\* up to the first call that fails; failed is its index, 0 if there is none.
\* MkdirAll creates a directory only if it is absent: present are the
\* directories there before the hook runs.  The result lists the calls made.
initGenDirs(dirs, failed, present) ==
    LET n == IF failed = 0 THEN Len(dirs) ELSE failed
    IN  [made |-> [i \in 1..n |->
                     [gen |-> dirs[i].gen,
                      dir |-> dirs[i].dir,
                      ok |-> i # failed,
                      created |-> /\ i # failed
                                  /\ dirs[i].dir \notin present
                                  /\ \A k \in 1..(i - 1) :
                                        dirs[k].dir # dirs[i].dir]],
         err |-> IF failed = 0 THEN NoErr
                 ELSE Err("MkdirAll", dirs[failed].dir)]

\* The hook as it would be if a directory that cannot be made were passed
\* over.
PreRunE_IgnoreError(failed, present) ==
    /\ pc = "mkdir"
    /\ failed \in 0..Len(outDirs)
    /\ mkdirs' = initGenDirs(outDirs, failed, present).made
    /\ err' = err
    /\ pc' = "select"
    /\ UNCHANGED notPipe
    /\ UNCHANGED <<runs, args, changed, given, outDirs, runLocals, panicking,
                   result, opened, parsed, checked, calls>>

\* c.PreRunE, the chain NewCLI sets up, run by cobra after PersistentPreRunE
\* and before RunE: initGenDirs makes the output directories (the verbose
\* logger and validatePluginTypes do not touch the state kept here).  An
\* error of the hook ends Execute.
PreRunE(failed, present) ==
    /\ pc = "mkdir"
    /\ failed \in 0..Len(outDirs)
    /\ LET r == initGenDirs(outDirs, failed, present)
       IN  /\ mkdirs' = r.made
           /\ err' = IF IsNil(r.err) THEN err ELSE r.err
           /\ pc' = IF IsNil(r.err) THEN "select" ELSE "return"
    /\ UNCHANGED notPipe
    /\ UNCHANGED <<runs, args, changed, given, outDirs, runLocals, panicking,
                   result, opened, parsed, checked, calls>>

\* runRoot, "Accumulate selected code generators": LocalFlags().VisitAll
\* visits the flags in lexicographical order of their names.
VisitAll ==
    /\ pc = "select"
    /\ gs' = SelectSeq(SortedFlags(FlagNames),
                       LAMBDA f : f \in changed /\ f \in geners)
    /\ mode' = IF "doc_out" \in changed THEN "ParseComments" ELSE "0"
    /\ docs' = {}
    /\ fi' = 1
    /\ pc' = "parse"
    /\ UNCHANGED notPipe
    /\ UNCHANGED <<runs, args, changed, given, outDirs, mkdirs, errs, gi,
                   remaining, err, panicking, result, history>>

ParseOutcomes == {"abs", "open", "parse", "panic", "ok"}

\* runRoot, "Parse files": one iteration of the loop over args: filepath.Abs,
\* os.Open and parser.ParseDoc, each of which may fail; the parser may also
\* panic.  The document is stored in the docs map under its name, which is
\* that of its file: a file given twice leaves one entry.
ParseDoc(outcome, pv) ==
    /\ pc = "parse"
    /\ fi <= Len(args)
    /\ LET filename == args[fi]
       IN  CASE outcome = "abs" ->
                  /\ err' = Err("filepath.Abs", filename)
                  /\ pc' = "return"
                  /\ UNCHANGED <<docs, fi, panicking, opened, parsed>>
             [] outcome = "open" ->
                  /\ opened' = Append(opened, filename)
                  /\ err' = Err("os.Open", filename)
                  /\ pc' = "return"
                  /\ UNCHANGED <<docs, fi, panicking, parsed>>
             [] outcome = "parse" ->
                  /\ opened' = Append(opened, filename)
                  /\ err' = Err("parser.ParseDoc", filename)
                  /\ pc' = "return"
                  /\ UNCHANGED <<docs, fi, panicking, parsed>>
             [] outcome = "panic" ->
                  /\ opened' = Append(opened, filename)
                  /\ panicking' = pv
                  /\ pc' = "panic"
                  /\ UNCHANGED <<docs, fi, err, parsed>>
             [] outcome = "ok" ->
                  /\ opened' = Append(opened, filename)
                  /\ parsed' = Append(parsed, filename)
                  /\ docs' = docs \cup {filename}
                  /\ fi' = fi + 1
                  /\ pc' = IF fi + 1 > Len(args) THEN "check" ELSE "parse"
                  /\ UNCHANGED <<err, panicking>>
    /\ UNCHANGED notPipe
    /\ UNCHANGED <<runs, args, changed, given, outDirs, mkdirs, mode, gs,
                   errs, gi, remaining, result, checked, calls>>

\* The generation loop is over as soon as there is no generator left.
AfterLoop(i) == IF i > Len(gs) THEN "return" ELSE "generate"

\* CheckTypes as it would be if diagnostics did not stop the run.
CheckTypes_NoAbort(n) ==
    /\ pc = "check"
    /\ errs' = n
    /\ checked' = TRUE
    /\ gi' = 1
    /\ remaining' = docs
    /\ pc' = AfterLoop(1)
    /\ UNCHANGED notPipe
    /\ UNCHANGED <<runs, args, changed, given, outDirs, mkdirs, mode, gs,
                   docs, fi, err, panicking, result, opened, parsed, calls>>

\* runRoot, "Perform type checking"
CheckTypes(n) ==
    /\ pc = "check"
    /\ errs' = n
    /\ checked' = TRUE
    /\ IF n > 0
       THEN /\ pc' = "return"
            /\ UNCHANGED <<gi, remaining>>
       ELSE /\ gi' = 1
            /\ remaining' = docs
            /\ pc' = AfterLoop(1)
    /\ UNCHANGED notPipe
    /\ UNCHANGED <<runs, args, changed, given, outDirs, mkdirs, mode, gs,
                   docs, fi, err, panicking, result, opened, parsed, calls>>

GenerateOutcomes == {"ok", "error", "panic"}

\* The generation loop as it would be if an error of Generate were kept but
\* the loop went on with the next pair.
Generate_ContinueOnError(doc, outcome, pv) ==
    /\ pc = "generate"
    /\ gi <= Len(gs)
    /\ doc \in remaining
    /\ LET gen == gs[gi]
           res == CASE outcome = "ok" -> NoErr
                    [] outcome = "error" -> Err("generate", <<gen, doc>>)
                    [] outcome = "panic" -> Err("panicked", <<gen, doc>>)
       IN  /\ calls' = Append(calls, [gen |-> gen, doc |-> doc, res |-> res])
           /\ IF outcome = "panic"
              THEN /\ panicking' = pv
                   /\ pc' = "panic"
                   /\ UNCHANGED <<gi, remaining, err>>
              ELSE /\ err' = res
                   /\ IF remaining = {doc}
                      THEN /\ gi' = gi + 1
                           /\ remaining' = docs
                           /\ pc' = AfterLoop(gi + 1)
                      ELSE /\ gi' = gi
                           /\ remaining' = remaining \ {doc}
                           /\ pc' = "generate"
                   /\ UNCHANGED panicking
    /\ UNCHANGED notPipe
    /\ UNCHANGED <<runs, args, changed, given, outDirs, mkdirs, mode, gs,
                   docs, fi, errs, result, opened, parsed, checked>>

\* runRoot, "Run code generators": one Generate call.  The inner loop ranges
\* over the docs map, whose iteration order Go leaves unspecified: any key
\* not yet visited may come next.
Generate(doc, outcome, pv) ==
    /\ pc = "generate"
    /\ gi <= Len(gs)
    /\ doc \in remaining
    /\ LET gen == gs[gi]
           res == CASE outcome = "ok" -> NoErr
                    [] outcome = "error" -> Err("generate", <<gen, doc>>)
                    [] outcome = "panic" -> Err("panicked", <<gen, doc>>)
       IN  /\ calls' = Append(calls, [gen |-> gen, doc |-> doc, res |-> res])
           /\ CASE outcome = "ok" ->
                     /\ err' = NoErr
                     /\ IF remaining = {doc}
                        THEN /\ gi' = gi + 1
                             /\ remaining' = docs
                             /\ pc' = AfterLoop(gi + 1)
                        ELSE /\ gi' = gi
                             /\ remaining' = remaining \ {doc}
                             /\ pc' = "generate"
                     /\ UNCHANGED panicking
                [] outcome = "error" ->
                     /\ err' = res
                     /\ pc' = "return"
                     /\ UNCHANGED <<gi, remaining, panicking>>
                [] outcome = "panic" ->
                     /\ panicking' = pv
                     /\ pc' = "panic"
                     /\ UNCHANGED <<gi, remaining, err>>
    /\ UNCHANGED notPipe
    /\ UNCHANGED <<runs, args, changed, given, outDirs, mkdirs, mode, gs,
                   docs, fi, errs, result, opened, parsed, checked>>

\* CommandLine.Run, the deferred function and the return: a recovered value
\* that is not nil is wrapped with the stack; otherwise Run returns what
\* Execute returned, which is nil when Execute did not return.
RunDeferred(r) ==
    /\ pc \in {"return", "panic"}
    /\ r \in Recovered(panicking)
    /\ result' =
         IF r.type # "nil"
         THEN IF r.type = "error"
              THEN wrapPanic(Err("error", r.v), Stack)
              ELSE wrapPanic(Err("%#v", r.v), Stack)
         ELSE IF pc = "return" THEN err ELSE NoErr
    /\ pc' = "done"
    /\ UNCHANGED notPipe
    /\ UNCHANGED <<runs, args, changed, given, outDirs, mkdirs, runLocals,
                   err, panicking, history>>

OsArgs == { <<ProgName>> \o a : a \in SeqsUpTo(FileNames, MaxArgs) }

\* The flags on the command lines of the runs that exercise the stages of
\* the pipeline: any of the generator flags and "verbose" in the first Run,
\* the same flags again in each later Run; the output directories are
\* absent before each run.
PipeFlags ==
    IF runs = 0 THEN SUBSET {"doc_out", "js_out", "verbose"} ELSE {given}

PipeNext ==
    \/ \E a \in OsArgs, ch \in PipeFlags : Run(a, ch)
    \/ MinimumNArgs
    \/ PersistentPreRunE
    \/ \E k \in 0..(MaxRuns * Cardinality(geners)) : PreRunE(k, {})
    \/ VisitAll
    \/ \E o \in ParseOutcomes, pv \in PanicValues : ParseDoc(o, pv)
    \/ \E n \in 0..MaxDiags : CheckTypes(n)
    \/ \E d \in FileNames, o \in GenerateOutcomes, pv \in PanicValues :
          Generate(d, o, pv)
    \/ \E r \in UNION { Recovered(p) : p \in PanicValues \cup {NotPanicking} } :
          RunDeferred(r)

\* The runs that exercise the flags: any flags on each command line, over
\* zero or more times the one file a.gql, which may fail to open; nothing
\* panics.
CliArgs == { <<ProgName>> \o a : a \in SeqsUpTo({<<"a", ".", "gql">>}, MaxArgs) }

CliNext ==
    \/ \E a \in CliArgs, ch \in SUBSET FlagNames : Run(a, ch)
    \/ MinimumNArgs
    \/ PersistentPreRunE
    \/ \E k \in 0..(MaxRuns * Cardinality(geners)), pr \in SUBSET Dirs :
          PreRunE(k, pr)
    \/ VisitAll
    \/ \E o \in {"open", "ok"} : ParseDoc(o, NotPanicking)
    \/ \E n \in 0..MaxDiags : CheckTypes(n)
    \/ \E d \in FileNames, o \in {"ok", "error"} :
          Generate(d, o, NotPanicking)
    \/ \E r \in Recovered(NotPanicking) : RunDeferred(r)

\* The pairs among which Generate calls fail, and in one pair of runs to
\* compare the outcome of Generate for a generator and document: an error if
\* the pair is failing, nil if not.
FailPairs == {"doc_out"} \X {<<"a", ".", "gql">>, <<"b", ".", "graphql">>}

OutcomeOf(doc) ==
    IF pc = "generate" /\ gi <= Len(gs)
    THEN { IF <<gs[gi], doc>> \in failing THEN "error" ELSE "ok" }
    ELSE {}

TwiceArgs ==
    { <<ProgName>> \o a :
        a \in SeqsUpTo({<<"a", ".", "gql">>, <<"b", ".", "graphql">>},
                       MaxArgs) }

\* Runs on one CommandLine, each with the arguments and flags of the first,
\* in an environment that stays as it is: the files parse and check, the
\* directories can be made, and Generate fails for the failing pairs.
TwiceNext ==
    \/ \E a \in TwiceArgs, ch \in SUBSET geners : RunAgain(a, ch)
    \/ MinimumNArgs
    \/ PersistentPreRunE
    \/ PreRunE(0, {})
    \/ VisitAll
    \/ ParseDoc("ok", NotPanicking)
    \/ CheckTypes(0)
    \/ \E d \in FileNames :
          \E o \in OutcomeOf(d) : Generate(d, o, NotPanicking)
    \/ \E r \in Recovered(NotPanicking) : RunDeferred(r)

\* ------------------------------------------------------ the plugin Generator
\* Goroutines that call Generate on the one Generator g.
Callers == {1, 2}

\* The one goroutine of a run in which the calls are made one after the
\* other.
Sequential == {1}

\* g.Prefix + g.Name
Prefix == "gqlc-gen-"

Name == "x"

pluginName == <<Prefix, Name>>

\* Documents handed to the plugin Generator, by name.
PluginDocs == { <<"a", ".", "gql">>, <<"b", ".", "graphql">> }

\* Option maps: the nil map, the empty map, a map with one string entry and
\* a map holding a value encoding/json cannot encode (a channel).
Opts == {"nil", "empty", "kv", "chan"}

\* Byte strings: what is in a buffer or on a pipe.
Bytes(w, b) == [wire |-> w, body |-> b]

NoBytes == Bytes("empty", <<>>)

Garbage == Bytes("garbage", <<>>)

\* encoding/json.Marshal of an option map: the text, or an error.
jsonMarshal(opts) ==
    CASE opts = "nil" -> [err |-> NoErr, b |-> Bytes("json", <<"null">>)]
      [] opts = "empty" -> [err |-> NoErr, b |-> Bytes("json", <<"{}">>)]
      [] opts = "kv" -> [err |-> NoErr, b |-> Bytes("json", <<"{\"k\":\"v\"}">>)]
      [] opts = "chan" ->
           [err |-> Err("json.UnsupportedTypeError",
                        "json: unsupported type: chan int"),
            b |-> NoBytes]

\* pb.Response
EmptyResponse == [error |-> "", file |-> <<>>]

\* A File's name is a slash-separated path, kept as the sequence of its
\* components, each a sequence of tokens: an absolute path begins with the
\* empty component.
ResponseFiles ==
    { [name |-> << <<"x", ".", "js">> >>, content |-> "cx"],
      [name |-> << <<"y", ".", "js">> >>, content |-> "cy"],
      [name |-> << <<"..">>, <<"evil", ".", "txt">> >>, content |-> "ce"],
      [name |-> << <<>>, <<"etc">>, <<"passwd">> >>, content |-> "cp"],
      [name |-> << <<".">>, <<"z", ".", "js">> >>, content |-> "cz"] }

Responses ==
    [error : {"", "boom"}, file : SeqsUpTo(ResponseFiles, MaxFiles)]

\* proto.Marshal of a Response: a message with every field at its zero value
\* encodes to no bytes at all.
marshalResponse(r) ==
    IF r = EmptyResponse THEN NoBytes ELSE Bytes("pb.Response", <<r>>)

\* proto.Unmarshal into a pb.Response
Unmarshal(b) ==
    CASE b.wire = "pb.Response" -> [err |-> NoErr, resp |-> b.body[1]]
      [] b.wire = "empty" -> [err |-> NoErr, resp |-> EmptyResponse]
      [] OTHER -> [err |-> Err("proto.Unmarshal", "proto: cannot parse"),
                   resp |-> EmptyResponse]

\* What a plugin may write to its standard output.
Outputs == {Garbage} \cup { marshalResponse(r) : r \in Responses }

\* gen.GeneratorError{GenName, DocName, Msg: err.Error()}
GeneratorError(genName, docName, e) ==
    [kind |-> "GeneratorError", msg |-> <<genName, docName, e.msg>>,
     stack |-> "none"]

\* *exec.Cmd; the nil pointer is the record with set = FALSE.  ctx is the
\* caller whose context the command is bound to (0: none), stdout the caller
\* whose buffer receives the output.
NilCmd ==
    [set |-> FALSE, ctx |-> 0, path |-> "", stdin |-> NoBytes, stdout |-> 0]

\* A command the user set on the Generator before the first call.
PresetCmd ==
    [set |-> TRUE, ctx |-> 0, path |-> "/preset", stdin |-> NoBytes,
     stdout |-> 0]

\* exec.CommandContext(ctx, path)
CommandContext(ctx, path) ==
    [set |-> TRUE, ctx |-> ctx, path |-> path, stdin |-> NoBytes,
     stdout |-> 0]

\* The locals of one Generate call, with its history: proc is the command
\* the call ran, cancelled tells that its ctx was cancelled while it ran.
IdleCall ==
    [pc |-> "idle", doc |-> <<>>, opts |-> "nil", b |-> NoBytes,
     out |-> NoBytes, resp |-> EmptyResponse, k |-> 1, err |-> NoErr,
     ret |-> NoErr, looked |-> FALSE, started |-> FALSE, run |-> "none",
     ops |-> <<>>, proc |-> NilCmd, cancelled |-> FALSE]

PlugIdle ==
    /\ g = [Cmd |-> NilCmd, lookOnce |-> FALSE, path |-> "",
            lookPathErr |-> NoErr]
    /\ call = [p \in Callers |-> IdleCall]
    /\ lookups = 0
    /\ ncalls = 0

PlugInit ==
    /\ g \in [Cmd : {NilCmd, PresetCmd}, lookOnce : {FALSE}, path : {""},
              lookPathErr : {NoErr}]
    /\ call = [p \in Callers |-> IdleCall]
    /\ lookups = 0
    /\ ncalls = 0

\* Generate, entry and "Encode options to JSON".  A goroutine begins a call
\* when it has none under way; the locals of its last call are gone then.
Generate_Marshal(p, doc, opts) ==
    /\ call[p].pc \in {"idle", "returned"}
    /\ ncalls < MaxCalls
    /\ ncalls' = ncalls + 1
    /\ LET m == jsonMarshal(opts)
           c == [IdleCall EXCEPT !.doc = doc, !.opts = opts]
       IN  call' = [call EXCEPT ![p] =
                      IF ~IsNil(m.err)
                      THEN [c EXCEPT !.err = m.err, !.pc = "defer"]
                      ELSE [c EXCEPT !.b = m.b, !.pc = "lookup"]]
    /\ UNCHANGED <<g, lookups>>
    /\ UNCHANGED notPlug

\* The lookup as it would be without the sync.Once: every call that gets
\* here runs exec.LookPath.
Generate_LookPath_EveryCall(p, found) ==
    /\ call[p].pc = "lookup"
    /\ LET g1 == IF found
                 THEN [g EXCEPT !.lookOnce = TRUE,
                                !.path = <<"/bin", pluginName>>,
                                !.lookPathErr = NoErr]
                 ELSE [g EXCEPT !.lookOnce = TRUE,
                                !.lookPathErr =
                                   Err("exec.Error",
                                       "executable file not found in $PATH")]
       IN  /\ g' = g1
           /\ lookups' = lookups + 1
           /\ call' = [call EXCEPT
                         ![p].looked = TRUE,
                         ![p].err = IF ~IsNil(g1.lookPathErr)
                                    THEN g1.lookPathErr ELSE @,
                         ![p].pc = IF ~IsNil(g1.lookPathErr)
                                   THEN "defer" ELSE "request"]
    /\ UNCHANGED ncalls
    /\ UNCHANGED notPlug

\* Generate, "Lookup plugin only once": lookOnce.Do runs exec.LookPath on
\* the first call that gets here; found tells whether the executable is on
\* the search path then.
Generate_LookPath(p, found) ==
    /\ call[p].pc = "lookup"
    /\ g.lookOnce => found
    /\ LET g1 == IF g.lookOnce THEN g
                 ELSE IF found
                      THEN [g EXCEPT !.lookOnce = TRUE,
                                     !.path = <<"/bin", pluginName>>]
                      ELSE [g EXCEPT !.lookOnce = TRUE,
                                     !.lookPathErr =
                                        Err("exec.Error",
                                            "executable file not found in $PATH")]
       IN  /\ g' = g1
           /\ lookups' = IF g.lookOnce THEN lookups ELSE lookups + 1
           /\ call' = [call EXCEPT
                         ![p].looked = ~g.lookOnce,
                         ![p].err = IF ~IsNil(g1.lookPathErr)
                                    THEN g1.lookPathErr ELSE @,
                         ![p].pc = IF ~IsNil(g1.lookPathErr)
                                   THEN "defer" ELSE "request"]
    /\ UNCHANGED ncalls
    /\ UNCHANGED notPlug

\* Generate, "Marshall doc": the Request holds the one document.
Generate_Request(p, ok) ==
    /\ call[p].pc = "request"
    /\ call' = [call EXCEPT ![p] =
                  IF ok
                  THEN [@ EXCEPT
                          !.b = Bytes("pb.Request",
                                      <<[fileToGenerate |-> <<call[p].doc>>,
                                         parameter |-> call[p].b.body[1],
                                         documents |-> <<call[p].doc>>]>>),
                          !.pc = "configure"]
                  ELSE [@ EXCEPT !.err = Err("proto.Marshal",
                                             "proto: cannot encode"),
                                 !.pc = "defer"]]
    /\ UNCHANGED <<g, lookups, ncalls>>
    /\ UNCHANGED notPlug

\* The configuration as it would be if a command that is already set kept
\* the Stdin it has.
Generate_Configure_KeepStdin(p) ==
    /\ call[p].pc = "configure"
    /\ g' = [g EXCEPT !.Cmd =
                IF ~g.Cmd.set
                THEN [CommandContext(p, g.path) EXCEPT !.stdin = call[p].b,
                                                       !.stdout = p]
                ELSE [g.Cmd EXCEPT !.stdout = p]]
    /\ call' = [call EXCEPT ![p].out = NoBytes, ![p].pc = "run"]
    /\ UNCHANGED <<lookups, ncalls>>
    /\ UNCHANGED notPlug

\* Generate, "Configure plugin command"
Generate_Configure(p) ==
    /\ call[p].pc = "configure"
    /\ LET cmd == IF ~g.Cmd.set THEN CommandContext(p, g.path) ELSE g.Cmd
       IN  g' = [g EXCEPT !.Cmd = [cmd EXCEPT !.stdin = call[p].b,
                                              !.stdout = p]]
    /\ call' = [call EXCEPT ![p].out = NoBytes, ![p].pc = "run"]
    /\ UNCHANGED <<lookups, ncalls>>
    /\ UNCHANGED notPlug

RunOutcomes == {"start", "exit1", "exit0"}

\* The exec step as it would be if the exit status of a command that ran
\* were not looked at.
Generate_Run_IgnoreExit(p, outcome, output) ==
    /\ call[p].pc = "run"
    /\ g.Cmd.set
    /\ outcome = "start" => output = NoBytes
    /\ call' = [call EXCEPT
                  ![g.Cmd.stdout].out = output,
                  ![p].started = (outcome # "start"),
                  ![p].run = outcome,
                  ![p].proc = g.Cmd,
                  ![p].err = IF outcome = "start"
                             THEN Err("exec.Error", "fork/exec failed")
                             ELSE NoErr,
                  ![p].pc = IF outcome = "start" THEN "defer"
                            ELSE "unmarshal"]
    /\ g' = [g EXCEPT !.Cmd = NilCmd]
    /\ UNCHANGED <<lookups, ncalls>>
    /\ UNCHANGED notPlug

\* Generate, "Exec plugin": g.Run() starts the command and waits for it, then
\* g.Cmd is cleared.  The command may fail to start, or it runs, writes
\* output to the buffer set as its Stdout and exits with status 1 or 0.
Generate_Run(p, outcome, output) ==
    /\ call[p].pc = "run"
    /\ g.Cmd.set
    /\ outcome = "start" => output = NoBytes
    /\ call' = [call EXCEPT
                  ![g.Cmd.stdout].out = output,
                  ![p].started = (outcome # "start"),
                  ![p].run = outcome,
                  ![p].proc = g.Cmd,
                  ![p].err = CASE outcome = "start" ->
                                    Err("exec.Error", "fork/exec failed")
                               [] outcome = "exit1" ->
                                    Err("exec.ExitError", "exit status 1")
                               [] outcome = "exit0" -> NoErr,
                  ![p].pc = IF outcome = "exit0" THEN "unmarshal"
                            ELSE "defer"]
    /\ g' = [g EXCEPT !.Cmd = NilCmd]
    /\ UNCHANGED <<lookups, ncalls>>
    /\ UNCHANGED notPlug

\* Generate, "Exec plugin", when another call has run the command and
\* cleared g.Cmd in the meantime: g.Run() is a method call through the nil
\* *exec.Cmd and panics.
Generate_RunNilCmd(p) ==
    /\ call[p].pc = "run"
    /\ ~g.Cmd.set
    /\ call' = [call EXCEPT ![p].pc = "panicked"]
    /\ UNCHANGED <<g, lookups, ncalls>>
    /\ UNCHANGED notPlug

CancelOutcomes == {"killed", "exit1", "exit0", "never"}

\* The error of Run for a command killed at the cancellation of its context:
\* the wait status of the killed process, or the error of the context.
KillErrors == {"signal: killed", "context canceled"}

\* Generate, "Exec plugin", when the ctx of the call is cancelled while the
\* command runs.  A command made by exec.CommandContext(ctx, ...) for this
\* call is killed and Run returns an error.  A command that was already set
\* on g is not bound to ctx: it runs on until it exits by itself, if it ever
\* does, and Run returns only then.  (The command of a cancelled call is
\* taken to write no output.)
Generate_RunCancelled(p, outcome, killErr) ==
    /\ call[p].pc = "run"
    /\ g.Cmd.set
    /\ (outcome = "killed") <=> (g.Cmd.ctx = p)
    /\ call' = [call EXCEPT
                  ![g.Cmd.stdout].out = NoBytes,
                  ![p].started = TRUE,
                  ![p].cancelled = TRUE,
                  ![p].run = outcome,
                  ![p].proc = g.Cmd,
                  ![p].err = CASE outcome = "killed" -> Err("exec.Run", killErr)
                               [] outcome = "exit1" ->
                                    Err("exec.ExitError", "exit status 1")
                               [] OTHER -> NoErr,
                  ![p].pc = CASE outcome = "exit0" -> "unmarshal"
                              [] outcome = "never" -> "blocked"
                              [] OTHER -> "defer"]
    /\ g' = IF outcome = "never" THEN g ELSE [g EXCEPT !.Cmd = NilCmd]
    /\ UNCHANGED <<lookups, ncalls>>
    /\ UNCHANGED notPlug

\* Generate, "Unmarshall response"
Generate_Unmarshal(p) ==
    /\ call[p].pc = "unmarshal"
    /\ LET u == Unmarshal(call[p].out)
       IN  call' = [call EXCEPT ![p].err = u.err,
                                ![p].resp = u.resp,
                                ![p].pc = IF ~IsNil(u.err) THEN "defer"
                                          ELSE "check"]
    /\ UNCHANGED <<g, lookups, ncalls>>
    /\ UNCHANGED notPlug

\* The check as it would be if the error field of the Response were ignored.
Generate_CheckResponse_IgnoreError(p) ==
    /\ call[p].pc = "check"
    /\ call' = [call EXCEPT ![p].k = 1,
                            ![p].pc = IF Len(call[p].resp.file) = 0
                                      THEN "defer" ELSE "write"]
    /\ UNCHANGED <<g, lookups, ncalls>>
    /\ UNCHANGED notPlug

\* Generate, "Check response"; with no file in the Response the loop over
\* the files is left at once.
Generate_CheckResponse(p) ==
    /\ call[p].pc = "check"
    /\ LET resp == call[p].resp
       IN  call' = [call EXCEPT ![p] =
                      IF resp.error # ""
                      THEN [@ EXCEPT !.err = Err("errors.New", resp.error),
                                     !.pc = "defer"]
                      ELSE [@ EXCEPT !.k = 1,
                                     !.pc = IF Len(resp.file) = 0
                                            THEN "defer" ELSE "write"]]
    /\ UNCHANGED <<g, lookups, ncalls>>
    /\ UNCHANGED notPlug

FileOp(op, f, ok) ==
    [op |-> op, name |-> f.name, content |-> f.content, ok |-> ok]

\* A file name the output context refuses: an absolute path, or a path with
\* a "." or ".." component.
InvalidPath(name) ==
    \/ name[1] = <<>>
    \/ \E i \in 1..Len(name) : name[i] \in {<<".">>, <<"..">>}

\* gen.Context(ctx).Open(name): the error, nil when the handle was obtained.
\* An unsafe name is refused before the file system is touched; for a safe
\* name the file system decides (ok).
Open(name, ok) ==
    IF InvalidPath(name) THEN Err("gen.InvalidPath", <<"invalid path", name>>)
    ELSE IF ~ok THEN Err("gen.Open", <<"open", name>>)
    ELSE NoErr

\* The write loop as it would be if a failed Write did not end it.
Generate_WriteFile_ContinueOnFailure(p, openOK, writeOK) ==
    /\ call[p].pc = "write"
    /\ ~openOK => writeOK
    /\ LET c == call[p]
           f == c.resp.file[c.k]
           ferr == Open(f.name, openOK)
       IN  call' = [call EXCEPT ![p] =
             IF ~IsNil(ferr)
             THEN [c EXCEPT !.ops = Append(@, FileOp("open", f, FALSE)),
                            !.err = ferr,
                            !.pc = "defer"]
             ELSE [c EXCEPT !.ops = @ \o <<FileOp("open", f, TRUE),
                                           FileOp("write", f, writeOK)>>,
                            !.err = IF writeOK THEN NoErr
                                    ELSE Err("io.Write", <<"write", f.name>>),
                            !.k = @ + 1,
                            !.pc = IF c.k + 1 > Len(c.resp.file) THEN "defer"
                                   ELSE "write"]]
    /\ UNCHANGED <<g, lookups, ncalls>>
    /\ UNCHANGED notPlug

\* The write loop as it would be if the file were created under the name as
\* the Response gives it, whatever the name.
Generate_WriteFile_AnyName(p, openOK, writeOK) ==
    /\ call[p].pc = "write"
    /\ ~openOK => writeOK
    /\ LET c == call[p]
           f == c.resp.file[c.k]
       IN  call' = [call EXCEPT ![p] =
             IF ~openOK
             THEN [c EXCEPT !.ops = Append(@, FileOp("open", f, FALSE)),
                            !.err = Err("gen.Open", <<"open", f.name>>),
                            !.pc = "defer"]
             ELSE IF ~writeOK
             THEN [c EXCEPT !.ops = @ \o <<FileOp("open", f, TRUE),
                                           FileOp("write", f, FALSE)>>,
                            !.err = Err("io.Write", <<"write", f.name>>),
                            !.pc = "defer"]
             ELSE [c EXCEPT !.ops = @ \o <<FileOp("open", f, TRUE),
                                           FileOp("write", f, TRUE)>>,
                            !.err = NoErr,
                            !.k = @ + 1,
                            !.pc = IF c.k + 1 > Len(c.resp.file) THEN "defer"
                                   ELSE "write"]]
    /\ UNCHANGED <<g, lookups, ncalls>>
    /\ UNCHANGED notPlug

\* Generate, "Write plugin files": one iteration of the loop.  The name goes
\* to gCtx.Open as the Response gives it; a failed Open or Write ends the
\* call with that error.  The handle w is not closed.
Generate_WriteFile(p, openOK, writeOK) ==
    /\ call[p].pc = "write"
    /\ ~openOK => writeOK
    /\ LET c == call[p]
           f == c.resp.file[c.k]
           ferr == Open(f.name, openOK)
       IN  call' = [call EXCEPT ![p] =
             IF ~IsNil(ferr)
             THEN [c EXCEPT !.ops = Append(@, FileOp("open", f, FALSE)),
                            !.err = ferr,
                            !.pc = "defer"]
             ELSE IF ~writeOK
             THEN [c EXCEPT !.ops = @ \o <<FileOp("open", f, TRUE),
                                           FileOp("write", f, FALSE)>>,
                            !.err = Err("io.Write", <<"write", f.name>>),
                            !.pc = "defer"]
             ELSE [c EXCEPT !.ops = @ \o <<FileOp("open", f, TRUE),
                                           FileOp("write", f, TRUE)>>,
                            !.err = NoErr,
                            !.k = @ + 1,
                            !.pc = IF c.k + 1 > Len(c.resp.file) THEN "defer"
                                   ELSE "write"]]
    /\ UNCHANGED <<g, lookups, ncalls>>
    /\ UNCHANGED notPlug

\* The return as it would be without the deferred wrapping of err.
Generate_Return_Unwrapped(p) ==
    /\ call[p].pc = "defer"
    /\ call' = [call EXCEPT ![p].ret = call[p].err, ![p].pc = "returned"]
    /\ UNCHANGED <<g, lookups, ncalls>>
    /\ UNCHANGED notPlug

\* Generate, the deferred function and the return: a non-nil err is replaced
\* by a GeneratorError naming the plugin and the document.
Generate_Return(p) ==
    /\ call[p].pc = "defer"
    /\ call' = [call EXCEPT
                  ![p].ret = IF ~IsNil(call[p].err)
                             THEN GeneratorError(pluginName, call[p].doc,
                                                 call[p].err)
                             ELSE NoErr,
                  ![p].pc = "returned"]
    /\ UNCHANGED <<g, lookups, ncalls>>
    /\ UNCHANGED notPlug

PlugNext ==
    \/ \E p \in Sequential, d \in PluginDocs, o \in Opts :
          Generate_Marshal(p, d, o)
    \/ \E p \in Sequential, found \in BOOLEAN : Generate_LookPath(p, found)
    \/ \E p \in Sequential, ok \in BOOLEAN : Generate_Request(p, ok)
    \/ \E p \in Sequential : Generate_Configure(p)
    \/ \E p \in Sequential, o \in RunOutcomes, out \in Outputs \cup {NoBytes} :
          Generate_Run(p, o, out)
    \/ \E p \in Sequential, o \in CancelOutcomes, k \in KillErrors :
          Generate_RunCancelled(p, o, k)
    \/ \E p \in Sequential : Generate_Unmarshal(p)
    \/ \E p \in Sequential : Generate_CheckResponse(p)
    \/ \E p \in Sequential, openOK \in BOOLEAN, writeOK \in BOOLEAN :
          Generate_WriteFile(p, openOK, writeOK)
    \/ \E p \in Sequential : Generate_Return(p)

\* --------------------------------------------------- the JavaScript Generator
\* strconv.ParseBool
ParseBool(v) ==
    IF v \in {"1", "t", "T", "TRUE", "true", "True"}
    THEN [b |-> TRUE, err |-> NoErr]
    ELSE IF v \in {"0", "f", "F", "FALSE", "false", "False"}
    THEN [b |-> FALSE, err |-> NoErr]
    ELSE [b |-> FALSE,
          err |-> Err("strconv.NumError", <<"ParseBool", v, "invalid syntax">>)]

\* The @js directive of a document: absent, without arguments, with an object
\* literal of fields as its first argument, or with an argument of another
\* shape.
NoDirective == [kind |-> "absent", fields |-> <<>>]

ObjLit(fields) == [kind |-> "obj", fields |-> fields]

JsDirectives ==
    { NoDirective,
      ObjLit(<<[key |-> "module", val |-> "ES6"]>>),
      ObjLit(<<[key |-> "descriptions", val |-> "maybe"]>>),
      [kind |-> "other", fields |-> <<>>] }

\* The documents handed to the JavaScript Generator.
JsDocs == [name : PluginDocs, directive : JsDirectives]

\* The opts map of a call: nil, or a set of entries with the dynamic type of
\* each value.
JsOpts ==
    { [isNil |-> TRUE, m |-> {}],
      [isNil |-> FALSE, m |-> {}],
      [isNil |-> FALSE,
       m |-> {[key |-> "module", type |-> "string", v |-> "ES6"]}],
      [isNil |-> FALSE,
       m |-> {[key |-> "module", type |-> "string", v |-> "COMMONJS"]}] }

HasKey(opts, k) == \E e \in opts.m : e.key = k

Lookup(opts, k) == CHOOSE e \in opts.m : e.key = k

\* v, _ = x.(T): the value if x holds a T, the zero value of T otherwise.
AssertType(e, type, zero) == IF e.type = type THEN e.v ELSE zero

commonJSDecl == "var"

es6Decl == "let"

DefaultOptions ==
    [Module |-> "COMMONJS", UseFlow |-> FALSE, Descriptions |-> FALSE,
     declStr |-> commonJSDecl]

\* getOptions, the loop over the fields of the object literal
RECURSIVE ApplyFields(_, _)
ApplyFields(fields, o) ==
    IF fields = <<>> THEN [gOpts |-> o, err |-> NoErr]
    ELSE LET arg == Head(fields)
         IN  CASE arg.key = "module" ->
                    ApplyFields(Tail(fields), [o EXCEPT !.Module = arg.val])
               [] arg.key = "useFlow" ->
                    ApplyFields(Tail(fields),
                                IF arg.val = "true"
                                THEN [o EXCEPT !.UseFlow = TRUE] ELSE o)
               [] arg.key = "descriptions" ->
                    IF ~IsNil(ParseBool(arg.val).err)
                    THEN [gOpts |-> o, err |-> ParseBool(arg.val).err]
                    ELSE ApplyFields(Tail(fields),
                                     [o EXCEPT !.Descriptions =
                                                  ParseBool(arg.val).b])
               [] OTHER -> ApplyFields(Tail(fields), o)

\* getOptions(doc, opts): the options, an error, or a panic (a failed type
\* assertion on the argument of the directive).  With a nil opts map the
\* function returns before declStr is set for the module.
getOptions(doc, opts) ==
    IF doc.directive.kind = "other"
    THEN [panic |-> TRUE, gOpts |-> DefaultOptions, err |-> NoErr]
    ELSE LET d == IF doc.directive.kind = "obj"
                  THEN ApplyFields(doc.directive.fields, DefaultOptions)
                  ELSE [gOpts |-> DefaultOptions, err |-> NoErr]
             o1 == IF HasKey(opts, "module")
                   THEN [d.gOpts EXCEPT !.Module =
                           AssertType(Lookup(opts, "module"), "string", "")]
                   ELSE d.gOpts
             o2 == IF HasKey(opts, "descriptions")
                   THEN [o1 EXCEPT !.Descriptions =
                           AssertType(Lookup(opts, "descriptions"), "bool",
                                      FALSE)]
                   ELSE o1
             o3 == IF HasKey(opts, "useFlow")
                   THEN [o2 EXCEPT !.UseFlow =
                           AssertType(Lookup(opts, "useFlow"), "bool", FALSE)]
                   ELSE o2
             o4 == IF o3.Module = "ES6" THEN [o3 EXCEPT !.declStr = es6Decl]
                   ELSE o3
         IN  IF ~IsNil(d.err)
             THEN [panic |-> FALSE, gOpts |-> d.gOpts, err |-> d.err]
             ELSE IF opts.isNil
             THEN [panic |-> FALSE, gOpts |-> d.gOpts, err |-> NoErr]
             ELSE [panic |-> FALSE, gOpts |-> o4, err |-> NoErr]

\* strings.Split(name, "/") on a name given as tokens
RECURSIVE SplitPath(_)
SplitPath(tokens) ==
    IF \A i \in 1..Len(tokens) : tokens[i] # "/" THEN <<tokens>>
    ELSE LET i == CHOOSE j \in 1..Len(tokens) :
                     /\ tokens[j] = "/"
                     /\ \A k \in 1..(j - 1) : tokens[k] # "/"
         IN  <<SubSeq(tokens, 1, i - 1)>>
             \o SplitPath(SubSeq(tokens, i + 1, Len(tokens)))

\* doc.Name[:len(doc.Name)-len(filepath.Ext(doc.Name))] + ".js", as the path
\* handed to Open
jsFileName(docName) ==
    SplitPath(SubSeq(docName, 1, Len(docName) - Len(Ext(docName)))
              \o <<".", "js">>)

\* The file operation on the output file of a JavaScript call.
JsFileOp(op, docName, what, ok) ==
    FileOp(op, [name |-> jsFileName(docName), content |-> what], ok)

\* Close called through the nil handle a failed Open returned.
CloseNil == FileOp("close", [name |-> <<>>, content |-> "nil"], FALSE)

IdleJsCall ==
    [pc |-> "idle", doc |-> [name |-> <<>>, directive |-> NoDirective],
     opts |-> [isNil |-> TRUE, m |-> {}], gOpts |-> DefaultOptions,
     err |-> NoErr, ret |-> NoErr, ops |-> <<>>]

JsInit ==
    /\ js = [mu |-> 0, buf |-> <<>>, indent |-> 0, log |-> <<>>]
    /\ jsc = [p \in Callers |-> IdleJsCall]
    /\ njs = 0

\* Generate as it would be if it did not call Reset.
JsGenerate_Lock_NoReset(p, doc, opts) ==
    /\ jsc[p].pc \in {"idle", "returned", "panicked"}
    /\ js.mu = 0
    /\ njs < MaxCalls
    /\ njs' = njs + 1
    /\ js' = [js EXCEPT !.mu = p,
                        !.log = IF js.log = <<>> THEN doc.name ELSE js.log]
    /\ jsc' = [jsc EXCEPT ![p] = [IdleJsCall EXCEPT !.doc = doc,
                                                    !.opts = opts,
                                                    !.pc = "options"]]
    /\ UNCHANGED notJs

\* Generate up to the call of getOptions: g.Lock() is taken when the mutex is
\* free, g.Reset() empties the buffer and the indent, and the logger is made
\* on the first call, for the document of that call.
JsGenerate_Lock(p, doc, opts) ==
    /\ jsc[p].pc \in {"idle", "returned", "panicked"}
    /\ js.mu = 0
    /\ njs < MaxCalls
    /\ njs' = njs + 1
    /\ js' = [mu |-> p, buf |-> <<>>, indent |-> 0,
              log |-> IF js.log = <<>> THEN doc.name ELSE js.log]
    /\ jsc' = [jsc EXCEPT ![p] = [IdleJsCall EXCEPT !.doc = doc,
                                                    !.opts = opts,
                                                    !.pc = "options"]]
    /\ UNCHANGED notJs

\* Generate, "Get generator options".  A panic unwinds the call: the deferred
\* Unlock runs and nothing is returned.
JsGenerate_GetOptions(p) ==
    /\ jsc[p].pc = "options"
    /\ LET r == getOptions(jsc[p].doc, jsc[p].opts)
       IN  IF r.panic
           THEN /\ jsc' = [jsc EXCEPT ![p].pc = "panicked"]
                /\ js' = [js EXCEPT !.mu = 0]
           ELSE /\ jsc' = [jsc EXCEPT
                             ![p].gOpts = r.gOpts,
                             ![p].err = r.err,
                             ![p].pc = IF ~IsNil(r.err) THEN "defer"
                                       ELSE "types"]
                /\ js' = js
    /\ UNCHANGED njs
    /\ UNCHANGED notJs

\* Generate, "Generate schema" and "Generate types": the declarations of the
\* document go to the buffer, each beginning with gOpts.declStr and written
\* at the indent of the generator, which In and Out raise and lower inside a
\* declaration.  A type assertion on the syntax tree may panic inside a
\* declaration (fault): the indent stays raised, the deferred Unlock runs
\* and nothing is returned.
JsGenerate_Types(p, fault) ==
    /\ jsc[p].pc = "types"
    /\ js' = [js EXCEPT !.buf = Append(@, [decl |-> jsc[p].gOpts.declStr,
                                           doc |-> jsc[p].doc.name,
                                           indent |-> js.indent]),
                        !.indent = IF fault THEN @ + 1 ELSE @,
                        !.mu = IF fault THEN 0 ELSE @]
    /\ jsc' = [jsc EXCEPT ![p].pc = IF fault THEN "panicked" ELSE "open"]
    /\ UNCHANGED njs
    /\ UNCHANGED notJs

\* The open as it would be if the file were given the name of the document.
JsGenerate_Open_DocName(p, ok) ==
    /\ jsc[p].pc = "open"
    /\ jsc' = [jsc EXCEPT
                 ![p].ops = Append(@, FileOp("open",
                                             [name |-> SplitPath(jsc[p].doc.name),
                                              content |-> <<>>], TRUE)),
                 ![p].err = NoErr,
                 ![p].pc = "imports"]
    /\ UNCHANGED <<js, njs>>
    /\ UNCHANGED notJs

\* Generate, "Open file to write to": err is the named result.  The close
\* is deferred before err is looked at: after a failed Open jsFile is the nil
\* handle, and deferring jsFile.Close() through it panics; the deferred
\* Unlock runs and nothing is returned.
JsGenerate_Open(p, ok) ==
    /\ jsc[p].pc = "open"
    /\ LET c == jsc[p]
           ferr == Open(jsFileName(c.doc.name), ok)
       IN  IF ~IsNil(ferr)
           THEN /\ jsc' = [jsc EXCEPT ![p] =
                             [c EXCEPT !.ops = @ \o <<JsFileOp("open",
                                                               c.doc.name,
                                                               <<>>, FALSE),
                                                      CloseNil>>,
                                       !.err = ferr,
                                       !.pc = "panicked"]]
                /\ js' = [js EXCEPT !.mu = 0]
           ELSE /\ jsc' = [jsc EXCEPT ![p] =
                             [c EXCEPT !.ops = Append(@, JsFileOp("open",
                                                                  c.doc.name,
                                                                  <<>>, TRUE)),
                                       !.err = NoErr,
                                       !.pc = "imports"]]
                /\ js' = js
    /\ UNCHANGED njs
    /\ UNCHANGED notJs

\* Generate, "Write module import statement"; after it the deferred close is
\* pending.
JsGenerate_WriteImports(p, ok) ==
    /\ jsc[p].pc = "imports"
    /\ jsc' = [jsc EXCEPT
                 ![p].ops = Append(@, JsFileOp("write", jsc[p].doc.name,
                                               <<jsc[p].gOpts.Module>>, ok)),
                 ![p].err = IF ok THEN NoErr
                            ELSE Err("io.Write", <<"write", "imports">>),
                 ![p].pc = IF ok THEN "output" ELSE "close"]
    /\ UNCHANGED <<js, njs>>
    /\ UNCHANGED notJs

\* Generate, "Write generated output": g.WriteTo(jsFile) drains the buffer.
JsGenerate_WriteTo(p, ok) ==
    /\ jsc[p].pc = "output"
    /\ jsc' = [jsc EXCEPT
                 ![p].ops = Append(@, JsFileOp("write", jsc[p].doc.name,
                                               js.buf, ok)),
                 ![p].err = IF ok THEN NoErr
                            ELSE Err("io.Write", <<"write", "output">>),
                 ![p].pc = "close"]
    /\ js' = [js EXCEPT !.buf = IF ok THEN <<>> ELSE @]
    /\ UNCHANGED njs
    /\ UNCHANGED notJs

\* Generate, the return and the deferred functions in their order: the close
\* of jsFile if the call got to defer it, g.Unlock(), and the function that
\* replaces a non-nil err by a GeneratorError naming "js" and the document.
JsGenerate_Return(p) ==
    /\ jsc[p].pc \in {"close", "defer"}
    /\ jsc' = [jsc EXCEPT
                 ![p].ops = IF jsc[p].pc = "close"
                            THEN Append(@, JsFileOp("close", jsc[p].doc.name,
                                                    <<>>, TRUE))
                            ELSE @,
                 ![p].ret = IF ~IsNil(jsc[p].err)
                            THEN GeneratorError("js", jsc[p].doc.name,
                                                jsc[p].err)
                            ELSE NoErr,
                 ![p].pc = "returned"]
    /\ js' = [js EXCEPT !.mu = 0]
    /\ UNCHANGED njs
    /\ UNCHANGED notJs

JsNext ==
    \/ \E p \in Sequential, d \in JsDocs, o \in JsOpts : JsGenerate_Lock(p, d, o)
    \/ \E p \in Sequential : JsGenerate_GetOptions(p)
    \/ \E p \in Sequential, fault \in BOOLEAN : JsGenerate_Types(p, fault)
    \/ \E p \in Sequential, ok \in BOOLEAN : JsGenerate_Open(p, ok)
    \/ \E p \in Sequential, ok \in BOOLEAN : JsGenerate_WriteImports(p, ok)
    \/ \E p \in Sequential, ok \in BOOLEAN : JsGenerate_WriteTo(p, ok)
    \/ \E p \in Sequential : JsGenerate_Return(p)

\* The @js directives and the opts maps that exercise getOptions: each
\* option given by the directive, by the map, by both or by neither; in the
\* map also with a value that is not of the type of the option.
OptDirectives ==
    { NoDirective,
      ObjLit(<<[key |-> "module", val |-> "ES6"]>>),
      ObjLit(<<[key |-> "module", val |-> "COMMONJS"]>>),
      ObjLit(<<[key |-> "useFlow", val |-> "true"]>>),
      ObjLit(<<[key |-> "useFlow", val |-> "false"]>>),
      ObjLit(<<[key |-> "descriptions", val |-> "true"]>>),
      ObjLit(<<[key |-> "descriptions", val |-> "maybe"]>>),
      ObjLit(<<[key |-> "module", val |-> "ES6"],
               [key |-> "useFlow", val |-> "true"],
               [key |-> "descriptions", val |-> "true"]>>) }

OptDocs == [name : {<<"a", ".", "gql">>}, directive : OptDirectives]

OptEntries ==
    { [key |-> "module", type |-> "string", v |-> "ES6"],
      [key |-> "module", type |-> "string", v |-> "COMMONJS"],
      [key |-> "module", type |-> "float64", v |-> "6"],
      [key |-> "useFlow", type |-> "bool", v |-> TRUE],
      [key |-> "useFlow", type |-> "bool", v |-> FALSE],
      [key |-> "descriptions", type |-> "bool", v |-> TRUE],
      [key |-> "descriptions", type |-> "bool", v |-> FALSE],
      [key |-> "descriptions", type |-> "string", v |-> "true"] }

OptOpts ==
    { [isNil |-> TRUE, m |-> {}], [isNil |-> FALSE, m |-> {}] }
    \cup { [isNil |-> FALSE, m |-> {e}] : e \in OptEntries }
    \cup { [isNil |-> FALSE,
            m |-> {[key |-> "module", type |-> "string", v |-> "COMMONJS"],
                   [key |-> "useFlow", type |-> "bool", v |-> FALSE],
                   [key |-> "descriptions", type |-> "bool", v |-> FALSE]}] }

\* Calls on the JavaScript Generator over those documents and maps, with a
\* file system that does not fail.
OptionsNext ==
    \/ \E p \in Sequential, d \in OptDocs, o \in OptOpts :
          JsGenerate_Lock(p, d, o)
    \/ \E p \in Sequential : JsGenerate_GetOptions(p)
    \/ \E p \in Sequential : JsGenerate_Types(p, FALSE)
    \/ \E p \in Sequential : JsGenerate_Open(p, TRUE)
    \/ \E p \in Sequential : JsGenerate_WriteImports(p, TRUE)
    \/ \E p \in Sequential : JsGenerate_WriteTo(p, TRUE)
    \/ \E p \in Sequential : JsGenerate_Return(p)

\* What the plugin writes in the runs of two concurrent calls: nothing, or a
\* Response with one file.
ConcurrentOutputs ==
    { NoBytes,
      marshalResponse([error |-> "",
                       file |-> <<[name |-> << <<"x", ".", "js">> >>,
                                   content |-> "cx"]>>]) }

\* Two goroutines call Generate on g with no synchronization between them:
\* their steps interleave.
ConcurrentNext ==
    \/ \E p \in Callers, d \in PluginDocs, o \in {"nil", "kv"} :
          Generate_Marshal(p, d, o)
    \/ \E p \in Callers : Generate_LookPath(p, TRUE)
    \/ \E p \in Callers : Generate_Request(p, TRUE)
    \/ \E p \in Callers : Generate_Configure(p)
    \/ \E p \in Callers, o \in RunOutcomes, out \in ConcurrentOutputs :
          Generate_Run(p, o, out)
    \/ \E p \in Callers : Generate_RunNilCmd(p)
    \/ \E p \in Callers : Generate_Unmarshal(p)
    \/ \E p \in Callers : Generate_CheckResponse(p)
    \/ \E p \in Callers, openOK \in BOOLEAN, writeOK \in BOOLEAN :
          Generate_WriteFile(p, openOK, writeOK)
    \/ \E p \in Callers : Generate_Return(p)

\* ----------------------------------------------------------- specifications
\* ----------------------------------------------- registering generators
\* The generators, the names of their flags and of their options flags given
\* to RegisterGenerator; "" is no options flag.
Generators == {"doc", "js"}

RegNames == {"doc_out", "js_out"}

RegOpts == {"", "doc_opt", "js_opt"}

\* A flag whose value is a genFlag for generator gen.
GenFlag(name, gen, isOpt) == [name |-> name, g |-> gen, isOpt |-> isOpt]

\* rootCmd.Flags() after init: the flag "verbose", which is of no generator.
RootFlags == << GenFlag("verbose", "", FALSE) >>

Names(fs) == { fs[i].name : i \in 1..Len(fs) }

\* The activation switches among the flags of fs.
Activation(fs) ==
    { fs[i].name : i \in { k \in 1..Len(fs) : fs[k].g # "" /\ ~fs[k].isOpt } }

NoPanic == <<>>

\* A flag set that takes a flag whatever flags it has.
Var_Redefine(fs, f) == [formal |-> Append(fs, f), panic |-> NoPanic]

\* c.Flags().Var: pflag adds the flag to the flag set unless the set has a
\* flag of that name, in which case it panics with "flag redefined".
Var(fs, f) ==
    IF f.name \in Names(fs)
    THEN [formal |-> fs, panic |-> <<"flag redefined", f.name>>]
    ELSE [formal |-> Append(fs, f), panic |-> NoPanic]

NoReg ==
    [name |-> "", opt |-> "", g |-> "", before |-> <<>>,
     panic |-> NoPanic, err |-> NoErr]

RegInit ==
    /\ formal = RootFlags
    /\ lastReg = NoReg
    /\ nregs = 0

\* CommandLine.RegisterGenerator: the flag of the generator is added, then
\* its options flag if one is named.  The method has no result: its caller
\* is handed no error; a panic of Var leaves the method at once.
RegisterGenerator(gen, name, opt) ==
    /\ nregs < MaxRegs
    /\ nregs' = nregs + 1
    /\ LET r1 == Var(formal, GenFlag(name, gen, FALSE))
           r2 == IF r1.panic # NoPanic \/ opt = "" THEN r1
                 ELSE Var(r1.formal, GenFlag(opt, gen, TRUE))
       IN  /\ formal' = r2.formal
           /\ lastReg' = [name |-> name, opt |-> opt, g |-> gen,
                          before |-> formal, panic |-> r2.panic,
                          err |-> NoErr]
    /\ UNCHANGED notReg

RegNext ==
    \E gen \in Generators, name \in RegNames, opt \in RegOpts :
       RegisterGenerator(gen, name, opt)

EnvInit ==
    /\ failing = {}
    /\ prev = NoPrev

Init == PipeInit /\ PlugIdle /\ JsInit /\ RegInit /\ EnvInit

InitTwice ==
    /\ PipeInit /\ PlugIdle /\ JsInit /\ RegInit
    /\ failing \in SUBSET FailPairs
    /\ prev = NoPrev

SpecTwice == InitTwice /\ [][TwiceNext]_vars

\* ------------------------------------------- the pipeline on the js generator
\* The Generate call the generation loop makes on the JavaScript Generator:
\* for a document not yet visited, with the options map of its flags, which
\* RegisterGenerator made and which is empty when js_opt is not given.
JsToCall ==
    IF /\ pc = "generate" /\ gi <= Len(gs) /\ gs[gi] = "js_out"
       /\ njs = Len(calls)
    THEN { [name |-> n, directive |-> NoDirective] : n \in remaining }
    ELSE {}

\* The call the loop is waiting for is over: the document it was for and how
\* it ended.
JsDone ==
    IF njs = Len(calls) + 1 /\ jsc[1].pc \in {"returned", "panicked"}
    THEN { [doc |-> jsc[1].doc.name,
            outcome |-> IF jsc[1].pc = "panicked" THEN "panic"
                        ELSE IF IsNil(jsc[1].ret) THEN "ok" ELSE "error"] }
    ELSE {}

\* A nil pointer dereference, as the runtime panics with it.
NilDereference == [type |-> "error", v |-> "nil pointer dereference"]

\* One Run of gqlc with the js generator registered: the files parse, the
\* output file can be opened, writes to it may fail.
E2EArgs ==
    { <<ProgName>> \o a :
        a \in SeqsUpTo({<<"a", ".", "gql">>, <<"b", ".", "graphql">>},
                       MaxArgs) }

E2EFlags == IF runs = 0 THEN SUBSET {"js_out", "verbose"} ELSE {}

E2ENext ==
    \/ \E a \in E2EArgs, ch \in E2EFlags : Run(a, ch)
    \/ MinimumNArgs
    \/ PersistentPreRunE
    \/ \E pr \in SUBSET Dirs : PreRunE(0, pr)
    \/ VisitAll
    \/ ParseDoc("ok", NotPanicking)
    \/ \E n \in 0..MaxDiags : CheckTypes(n)
    \/ \E d \in JsToCall :
          JsGenerate_Lock(1, d, [isNil |-> FALSE, m |-> {}])
    \/ JsGenerate_GetOptions(1)
    \/ JsGenerate_Types(1, FALSE)
    \/ JsGenerate_Open(1, TRUE)
    \/ \E ok \in BOOLEAN : JsGenerate_WriteImports(1, ok)
    \/ \E ok \in BOOLEAN : JsGenerate_WriteTo(1, ok)
    \/ JsGenerate_Return(1)
    \/ \E d \in JsDone : Generate(d.doc, d.outcome, NilDereference)
    \/ \E r \in Recovered(panicking) : RunDeferred(r)

SpecE2E == Init /\ [][E2ENext]_vars

Next == PipeNext

Spec == Init /\ [][Next]_vars

InitPlugin == PipeInit /\ PlugInit /\ JsInit /\ RegInit /\ EnvInit

SpecRegister == Init /\ [][RegNext]_vars

SpecCli == Init /\ [][CliNext]_vars

SpecPlugin == InitPlugin /\ [][PlugNext]_vars

SpecConcurrent == Init /\ [][ConcurrentNext]_vars

SpecOptions == Init /\ [][OptionsNext]_vars

\* Two goroutines call Generate on the JavaScript Generator: their steps
\* interleave as the mutex allows.  The documents have no @js directive and
\* the opts map is empty.
JsConcurrentDocs == [name : PluginDocs, directive : {NoDirective}]

JsConcurrentNext ==
    \/ \E p \in Callers, d \in JsConcurrentDocs :
          JsGenerate_Lock(p, d, [isNil |-> FALSE, m |-> {}])
    \/ \E p \in Callers : JsGenerate_GetOptions(p)
    \/ \E p \in Callers, fault \in BOOLEAN : JsGenerate_Types(p, fault)
    \/ \E p \in Callers, ok \in BOOLEAN : JsGenerate_Open(p, ok)
    \/ \E p \in Callers, ok \in BOOLEAN : JsGenerate_WriteImports(p, ok)
    \/ \E p \in Callers, ok \in BOOLEAN : JsGenerate_WriteTo(p, ok)
    \/ \E p \in Callers : JsGenerate_Return(p)

\* The steps of a call that holds the mutex: each returns, so a call in
\* progress goes on.
JsProgress ==
    \/ \E p \in Callers : JsGenerate_GetOptions(p)
    \/ \E p \in Callers, fault \in BOOLEAN : JsGenerate_Types(p, fault)
    \/ \E p \in Callers, ok \in BOOLEAN : JsGenerate_Open(p, ok)
    \/ \E p \in Callers, ok \in BOOLEAN : JsGenerate_WriteImports(p, ok)
    \/ \E p \in Callers, ok \in BOOLEAN : JsGenerate_WriteTo(p, ok)
    \/ \E p \in Callers : JsGenerate_Return(p)

SpecJsConcurrent ==
    Init /\ [][JsConcurrentNext]_vars /\ WF_vars(JsProgress)

\* One Generator is put to use, the plugin Generator or the JavaScript one:
\* a call on one is begun only if none was begun on the other.
PluginCallers == IF njs = 0 THEN Sequential ELSE {}

JsCallers == IF ncalls = 0 THEN Sequential ELSE {}

GeneratorsNext ==
    \/ \E p \in PluginCallers, d \in PluginDocs, o \in Opts :
          Generate_Marshal(p, d, o)
    \/ \E p \in Sequential, found \in BOOLEAN : Generate_LookPath(p, found)
    \/ \E p \in Sequential, ok \in BOOLEAN : Generate_Request(p, ok)
    \/ \E p \in Sequential : Generate_Configure(p)
    \/ \E p \in Sequential, o \in RunOutcomes, out \in Outputs \cup {NoBytes} :
          Generate_Run(p, o, out)
    \/ \E p \in Sequential, o \in CancelOutcomes, k \in KillErrors :
          Generate_RunCancelled(p, o, k)
    \/ \E p \in Sequential : Generate_Unmarshal(p)
    \/ \E p \in Sequential : Generate_CheckResponse(p)
    \/ \E p \in Sequential, openOK \in BOOLEAN, writeOK \in BOOLEAN :
          Generate_WriteFile(p, openOK, writeOK)
    \/ \E p \in Sequential : Generate_Return(p)
    \/ \E p \in JsCallers, d \in JsDocs, o \in JsOpts : JsGenerate_Lock(p, d, o)
    \/ \E p \in Sequential : JsGenerate_GetOptions(p)
    \/ \E p \in Sequential, fault \in BOOLEAN : JsGenerate_Types(p, fault)
    \/ \E p \in Sequential, ok \in BOOLEAN : JsGenerate_Open(p, ok)
    \/ \E p \in Sequential, ok \in BOOLEAN : JsGenerate_WriteImports(p, ok)
    \/ \E p \in Sequential, ok \in BOOLEAN : JsGenerate_WriteTo(p, ok)
    \/ \E p \in Sequential : JsGenerate_Return(p)

SpecGenerators == InitPlugin /\ [][GeneratorsNext]_vars

\* ------------------------------------------------- properties of the pipeline
Last(s) == s[Len(s)]

\* The file names of s in order, each at its first occurrence only.
RECURSIVE Dedup(_)
Dedup(s) ==
    IF s = <<>> THEN <<>>
    ELSE LET d == Dedup(SubSeq(s, 1, Len(s) - 1))
         IN  IF Last(s) \in Range(d) THEN d ELSE Append(d, Last(s))

IsPrefix(s, t) == Len(s) <= Len(t) /\ s = SubSeq(t, 1, Len(s))

\* The (generator, document) pairs of one run, generators outermost.
RECURSIVE Pairs(_, _)
Pairs(generators, documents) ==
    IF generators = <<>> THEN <<>>
    ELSE [i \in 1..Len(documents) |-> <<Head(generators), documents[i]>>]
         \o Pairs(Tail(generators), documents)

CallPairs == [i \in 1..Len(calls) |-> <<calls[i].gen, calls[i].doc>>]

BadArgs == { i \in 1..Len(args) : ~ValidExt(args[i]) }

\* C1: in the generation loop the first error returned by generate aborts the
\* run: no generate call follows a call that returned an error, and that
\* error is the one Run returns.
C1_FirstGenerateErrorAborts ==
    /\ \A i \in 1..(Len(calls) - 1) : calls[i].res.kind # "generate"
    /\ (pc = "done" /\ calls # <<>> /\ Last(calls).res.kind = "generate")
          => result = Last(calls).res

\* A run that stopped at a generate error with pairs left to do.
C1_Witness ==
    /\ pc = "done"
    /\ calls # <<>>
    /\ Last(calls).res.kind = "generate"
    /\ result = Last(calls).res
    /\ Len(calls) < Len(gs) * Cardinality(docs)

\* C2: the generate calls of a run are made in a fixed order, generators in
\* registration order and, for each generator, documents in the order their
\* files were parsed: the calls made so far are always a prefix of that
\* sequence of pairs.
C2_FixedCallOrder ==
    IsPrefix(CallPairs,
             Pairs(SelectSeq(Registered, LAMBDA f : f \in changed),
                   Dedup(parsed)))

\* C3: a panic in a step under Run, whatever its value, makes Run return a
\* non-nil error that embeds the panic value and a non-empty stack trace.
C3_PanicReported ==
    (pc = "done" /\ panicking.type # "none")
       => /\ result.kind = "panic"
          /\ result.stack # "none"
          /\ panicking.type # "nil" => result.msg[2] = panicking.v

\* C4: a run in which validation, parsing, type checking or generation
\* failed returns a non-nil error; in particular a run whose type check
\* yielded diagnostics does.
C4_FailureIsReported ==
    (/\ pc = "done"
     /\ panicking.type = "none"
     /\ \/ Len(args) < 1
        \/ BadArgs # {}
        \/ (~checked /\ parsed # args)
        \/ (checked /\ errs > 0)
        \/ (calls # <<>> /\ ~IsNil(Last(calls).res)))
       => ~IsNil(result)

\* C5: if some positional argument, at whatever position, lacks a recognized
\* extension, no file is opened or parsed, no generator is invoked, and the
\* run ends with the invalid-extension error.
C5_InvalidExtensionFailsFast ==
    BadArgs # {}
       => /\ opened = <<>>
          /\ parsed = <<>>
          /\ calls = <<>>
          /\ pc \notin {"select", "parse", "check", "generate"}
          /\ pc = "done" => result.kind = "invalid file extension"

\* A finished run whose only bad argument is not the first one.
C5_Witness ==
    /\ pc = "done"
    /\ Len(args) = 2
    /\ BadArgs = {2}
    /\ result = Err("invalid file extension", args[2])

\* C6: a generate call is made only after every input file was parsed
\* successfully and the type check returned no diagnostic.
C6_GenerateOnlyAfterParseAndCheck ==
    (calls # <<>> \/ pc = "generate")
       => /\ parsed = args
          /\ checked
          /\ errs = 0

\* A generate call made in a run over two files.
C6_Witness ==
    /\ calls # <<>>
    /\ Len(args) = 2
    /\ parsed = args
    /\ checked
    /\ errs = 0

\* ----------------------------------------- properties of the plugin Generator
\* A call that has returned, did not run the lookup itself, and finds the
\* failure of an earlier lookup cached on g.
IsLaterCallAfterFailedLookup(c) ==
    /\ c.pc = "returned"
    /\ g.lookOnce
    /\ ~IsNil(g.lookPathErr)
    /\ ~c.looked

CachedLookupError(c) == GeneratorError(pluginName, c.doc, g.lookPathErr)

\* C7 as stated: the path is looked up at most once, and after a failed
\* lookup every later call fails with the cached lookup error and starts no
\* subprocess.
C7_Original ==
    /\ lookups <= 1
    /\ \A p \in Callers :
          IsLaterCallAfterFailedLookup(call[p])
             => /\ call[p].ret = CachedLookupError(call[p])
                /\ ~call[p].started

\* C7 (amended): the path is looked up at most once; after a failed lookup no
\* call gets past the lookup step or starts a subprocess, and every later
\* call fails: with the cached lookup error if its options encode to JSON,
\* with the JSON encoding error otherwise.
C7_LookupOnceCachedFailure ==
    /\ lookups <= 1
    /\ \A p \in Callers :
          /\ ~IsNil(g.lookPathErr)
                => call[p].pc \in {"idle", "lookup", "defer", "returned"}
          /\ IsLaterCallAfterFailedLookup(call[p])
                => /\ ~call[p].started
                   /\ call[p].ret =
                        IF IsNil(jsonMarshal(call[p].opts).err)
                        THEN CachedLookupError(call[p])
                        ELSE GeneratorError(pluginName, call[p].doc,
                                            jsonMarshal(call[p].opts).err)

\* A second or later call that returned the cached lookup error.
C7_Witness ==
    \E p \in Callers :
       /\ IsLaterCallAfterFailedLookup(call[p])
       /\ ncalls >= 2
       /\ lookups = 1
       /\ call[p].ret = CachedLookupError(call[p])

\* C8: when the plugin exits with status 0 and its output decodes to a
\* Response with a non-empty error field, Generate fails with an error
\* carrying that message and opens and writes none of the Response's files.
C8_ReportedErrorFails ==
    \A p \in Callers :
       LET c == call[p]
           u == Unmarshal(c.out)
       IN  (c.run = "exit0" /\ IsNil(u.err) /\ u.resp.error # "")
              => /\ c.ops = <<>>
                 /\ c.pc # "write"
                 /\ c.pc = "returned"
                       => c.ret = GeneratorError(pluginName, c.doc,
                                                 Err("errors.New",
                                                     u.resp.error))

\* A call that returned the error reported in a Response that also lists files.
C8_Witness ==
    \E p \in Callers :
       /\ call[p].pc = "returned"
       /\ call[p].run = "exit0"
       /\ call[p].resp.error = "boom"
       /\ Len(call[p].resp.file) > 0
       /\ call[p].ret.msg[3] = "boom"
       /\ call[p].ops = <<>>

\* C9: when the subprocess exits with a non-zero status, or its captured
\* output does not decode as a Response, Generate fails with that protocol
\* error and no output file is opened or written.
C9_ProtocolErrorFails ==
    \A p \in Callers :
       LET c == call[p]
           u == Unmarshal(c.out)
       IN  /\ c.run = "exit1"
              => /\ c.ops = <<>>
                 /\ c.pc \in {"defer", "returned"}
                 /\ c.pc = "returned"
                       => c.ret = GeneratorError(pluginName, c.doc,
                                                 Err("exec.ExitError",
                                                     "exit status 1"))
           /\ (c.run = "exit0" /\ ~IsNil(u.err))
              => /\ c.ops = <<>>
                 /\ c.pc \in {"unmarshal", "defer", "returned"}
                 /\ c.pc = "returned"
                       => c.ret = GeneratorError(pluginName, c.doc, u.err)

\* A call that failed on exit status 1 although the plugin had written a
\* well-formed Response with files.
C9_Witness ==
    \E p \in Callers :
       /\ call[p].pc = "returned"
       /\ call[p].run = "exit1"
       /\ IsNil(Unmarshal(call[p].out).err)
       /\ Unmarshal(call[p].out).resp.error = ""
       /\ Len(Unmarshal(call[p].out).resp.file) > 0
       /\ ~IsNil(call[p].ret)
       /\ call[p].ops = <<>>

\* The file operations that write all of files, in order.
RECURSIVE AllOps(_)
AllOps(files) ==
    IF files = <<>> THEN <<>>
    ELSE <<FileOp("open", Head(files), TRUE),
           FileOp("write", Head(files), TRUE)>> \o AllOps(Tail(files))

\* The error Generate gets from a failed file operation.
OpError(o) ==
    IF o.op = "open" THEN Open(o.name, FALSE)
    ELSE Err("io.Write", <<"write", o.name>>)

\* C10: on a well-formed Response without error the files are opened and
\* written in the order the Response lists them; the first open or write
\* failure is returned and no later file is opened or written; without a
\* failure every file is written and Generate returns nil.
C10_FilesWrittenInOrder ==
    \A p \in Callers :
       LET c == call[p]
           n == Len(c.ops)
           asOK == [i \in 1..n |-> [c.ops[i] EXCEPT !.ok = TRUE]]
       IN  /\ IsPrefix(asOK, AllOps(c.resp.file))
           /\ \A i \in 1..(n - 1) : c.ops[i].ok
           /\ (c.pc = "returned" /\ n > 0 /\ ~c.ops[n].ok)
                 => c.ret = GeneratorError(pluginName, c.doc,
                                           OpError(c.ops[n]))
           /\ (c.pc = "returned" /\ c.run = "exit0" /\ IsNil(c.ret))
                 => c.ops = AllOps(c.resp.file)
           /\ (c.pc = "returned" /\ n > 0 /\ c.ops[n].ok)
                 => IsNil(c.ret) /\ c.ops = AllOps(c.resp.file)

\* A call that stopped at a failed write of the first of two files.
C10_Witness ==
    \E p \in Callers :
       /\ call[p].pc = "returned"
       /\ Len(call[p].resp.file) = 2
       /\ Len(call[p].ops) = 2
       /\ ~call[p].ops[2].ok
       /\ call[p].ret = GeneratorError(pluginName, call[p].doc,
                                       OpError(call[p].ops[2]))

\* C12: when the ctx of a Generate call is cancelled while its subprocess
\* runs, the subprocess is killed and the call does not wait for it but
\* returns the cancellation failure, whether g made the command for the call
\* or the command was already set on g.
C12_CancelKillsSubprocess ==
    \A p \in Callers :
       LET c == call[p]
       IN  c.cancelled
              => /\ c.run = "killed"
                 /\ c.pc # "blocked"
                 /\ c.pc = "returned"
                       => /\ c.ret.kind = "GeneratorError"
                          /\ c.ret.msg[3] \in KillErrors

RequestFor(doc, opts) ==
    Bytes("pb.Request",
          <<[fileToGenerate |-> <<doc>>,
             parameter |-> jsonMarshal(opts).b.body[1],
             documents |-> <<doc>>]>>)

\* C16: the Request a call hands to its subprocess on standard input holds
\* exactly one document, the doc of the call, names exactly that document as
\* the file to generate, and carries the JSON encoding of the opts of the
\* call as its parameter.
C16_RequestHoldsTheDocument ==
    \A p \in Callers :
       LET c == call[p]
       IN  /\ c.pc \in {"configure", "run"} => c.b = RequestFor(c.doc, c.opts)
           /\ c.pc = "run" => g.Cmd.stdin = RequestFor(c.doc, c.opts)
           /\ c.run # "none"
                 => /\ c.proc.stdin = RequestFor(c.doc, c.opts)
                    /\ Len(c.proc.stdin.body[1].documents) = 1
                    /\ c.proc.stdin.body[1].fileToGenerate = <<c.doc>>

\* A call with a one-entry option map that ran a command which was already
\* set on g, with its own Request on standard input.
C16_Witness ==
    \E p \in Callers :
       /\ call[p].started
       /\ call[p].opts = "kv"
       /\ call[p].proc.path = "/preset"
       /\ call[p].proc.stdin.body[1].parameter = "{\"k\":\"v\"}"
       /\ call[p].proc.stdin.body[1].documents = <<call[p].doc>>

\* C13: when two Generate calls run concurrently on g, each runs a command
\* made for it, with its own Request on standard input and its own buffer
\* for the output, and finds its command where it left it: no call runs the
\* command another call configured.
C13_OwnSubprocessPerCall ==
    \A p \in Callers :
       LET c == call[p]
       IN  /\ c.pc # "panicked"
           /\ c.pc = "run"
                 => /\ g.Cmd.set
                    /\ g.Cmd.ctx = p
                    /\ g.Cmd.stdin = c.b
                    /\ g.Cmd.stdout = p
           /\ c.run # "none"
                 => /\ c.proc.ctx = p
                    /\ c.proc.stdin = RequestFor(c.doc, c.opts)
                    /\ c.proc.stdout = p

\* C11: what a Generate call returns is nil or a GeneratorError that names
\* the generator (prefix and name of the plugin, "js" for the JavaScript
\* generator) and the document of the call; a failure of a step is returned
\* wrapped so, with its message, and a nil error is returned as nil.
C11_ErrorsAreGeneratorErrors ==
    \A p \in Callers :
       /\ call[p].pc = "returned"
             => /\ IsNil(call[p].err) => IsNil(call[p].ret)
                /\ ~IsNil(call[p].err)
                      => /\ call[p].ret.kind = "GeneratorError"
                         /\ call[p].ret.msg =
                              <<pluginName, call[p].doc, call[p].err.msg>>
       /\ jsc[p].pc = "returned"
             => /\ IsNil(jsc[p].err) => IsNil(jsc[p].ret)
                /\ ~IsNil(jsc[p].err)
                      => /\ jsc[p].ret.kind = "GeneratorError"
                         /\ jsc[p].ret.msg =
                              <<"js", jsc[p].doc.name, jsc[p].err.msg>>

\* A JavaScript call that failed at the write of the output, after its
\* imports were written, and returned that failure as a GeneratorError.
C11_Witness ==
    \E p \in Callers :
       /\ jsc[p].pc = "returned"
       /\ Len(jsc[p].ops) = 4
       /\ ~jsc[p].ops[3].ok
       /\ jsc[p].ret.kind = "GeneratorError"
       /\ jsc[p].ret.msg[1] = "js"
       /\ jsc[p].ret.msg[2] = jsc[p].doc.name
       /\ jsc[p].ret.msg[3] = <<"write", "output">>

\* The successful opens and the closes among file operations.
Obtained(ops) == { i \in 1..Len(ops) : ops[i].op = "open" /\ ops[i].ok }

Closes(ops) == { i \in 1..Len(ops) : ops[i].op = "close" }

\* Every handle obtained in ops is closed exactly once, and every close is
\* that of a handle obtained before.
ClosedExactlyOnce(ops) ==
    /\ \A i \in Obtained(ops) :
          Cardinality({ j \in Closes(ops) : ops[j].name = ops[i].name })
            = Cardinality({ j \in Obtained(ops) : ops[j].name = ops[i].name })
    /\ \A j \in Closes(ops) :
          \E i \in Obtained(ops) : i < j /\ ops[i].name = ops[j].name

\* C15: when a Generate call is over, by a return or by a panic, every file
\* handle it obtained from the output context has been closed exactly once
\* and Close was called on no handle that was not obtained; this for the
\* files of a plugin Response and for the output file of the JavaScript
\* generator.
C15_HandlesClosedOnce ==
    \A p \in Callers :
       /\ call[p].pc \in {"returned", "panicked"}
             => ClosedExactlyOnce(call[p].ops)
       /\ jsc[p].pc \in {"returned", "panicked"}
             => ClosedExactlyOnce(jsc[p].ops)

\* The options switch of the doc generator is on the command line of the
\* current Run and its activation switch is not.
Dangling == "doc_opt" \in given /\ "doc_out" \notin given

\* C17: a Run whose command line has the options switch of a generator
\* without its activation switch returns an error, and no Generate call is
\* made on that generator in it.
C17_DanglingOptionsFail ==
    /\ (pc = "done" /\ Dangling) => ~IsNil(result)
    /\ Dangling => \A i \in 1..Len(calls) : calls[i].gen # "doc_out"

\* The generators invoked in the current Run.
Invoked == { calls[i].gen : i \in 1..Len(calls) }

\* C19: in each Run only generators whose activation switch is on the
\* command line of that Run are selected and invoked, and a Run that parsed
\* and checked its files without diagnostics and returned nil invoked
\* exactly those.
C19_OnlyGivenGeneratorsInvoked ==
    /\ Range(gs) \subseteq given
    /\ Invoked \subseteq given
    /\ (pc = "done" /\ IsNil(result) /\ checked /\ errs = 0)
          => Invoked = given \cap geners

Duplicate == lastReg.name \in Activation(lastReg.before)

\* No two flags of a flag set have the same name.
OneFlagPerName(fs) ==
    \A i, k \in 1..Len(fs) : fs[i].name = fs[k].name => i = k

\* C18 as stated: registering a generator under an activation switch already
\* registered hands the caller a duplicate-generator error, and the flag set
\* never has two flags of one name.
C18_Original ==
    /\ Duplicate => lastReg.err.kind = "DuplicateGenerator"
    /\ OneFlagPerName(formal)

\* C18 (amended): registering a generator under an activation switch already
\* registered panics with "flag redefined" and that name at registration,
\* no error is returned and the flag set is left as it was; the flag set
\* never has two flags of one name.
C18_DuplicatePanics ==
    /\ Duplicate
          => /\ lastReg.panic = <<"flag redefined", lastReg.name>>
             /\ IsNil(lastReg.err)
             /\ formal = lastReg.before
    /\ OneFlagPerName(formal)

\* The js generator was registered under "doc_out" after the doc generator
\* was, and the call panicked.
C18_Witness ==
    /\ Duplicate
    /\ lastReg.name = "doc_out"
    /\ lastReg.g = "js"
    /\ \E i \in 1..Len(formal) :
          formal[i].name = "doc_out" /\ formal[i].g = "doc"
    /\ lastReg.panic # NoPanic

\* C24: in each Run on a CommandLine, the generators selected and invoked,
\* the output directories kept by the CommandLine and the directories
\* MkdirAll is called on are those of the activation switches on the command
\* line of that Run: nothing of an earlier Run is left in them.
C24_NoCarryOver ==
    /\ Range(gs) \subseteq given
    /\ Invoked \subseteq given
    /\ \A i \in 1..Len(outDirs) : outDirs[i].gen \in given
    /\ \A k \in 1..Len(mkdirs) : mkdirs[k].gen \in given

\* The type of each option of the JavaScript generator and its default.
OptionType == [module |-> "string", useFlow |-> "bool", descriptions |-> "bool"]

OptionDefault == [module |-> "COMMONJS", useFlow |-> FALSE, descriptions |-> FALSE]

\* The fields of the @js directive of doc that give option k.
Given(doc, k) ==
    { i \in 1..Len(doc.directive.fields) : doc.directive.fields[i].key = k }

\* The value the directive of doc gives option k, in its last field for k:
\* the string itself for module, the boolean it spells for the others.
DirectiveValue(doc, k) ==
    LET i == CHOOSE j \in Given(doc, k) : \A l \in Given(doc, k) : l <= j
        v == doc.directive.fields[i].val
    IN  IF k = "module" THEN v ELSE ParseBool(v).b

\* x is the value of option k by the precedence opts map, directive, default.
ByPrecedence(doc, opts, k, x) ==
    IF HasKey(opts, k)
    THEN Lookup(opts, k).type = OptionType[k] /\ Lookup(opts, k).v = x
    ELSE IF Given(doc, k) # {} THEN x = DirectiveValue(doc, k)
    ELSE x = OptionDefault[k]

\* The calls for which getOptions has returned options and no error.
Resolved ==
    { p \in Callers :
        /\ jsc[p].pc \in {"types", "open", "imports", "output", "close",
                          "returned"}
        /\ jsc[p].pc = "returned" => Len(jsc[p].ops) > 0 }

\* C23: the options getOptions returns have, for module, useFlow and
\* descriptions each, the value the opts map gives it if the map has it,
\* else the value the @js directive of the document gives it if it does,
\* else the default (COMMONJS, false, false).
C23_OptionPrecedence ==
    \A p \in Resolved :
       /\ ByPrecedence(jsc[p].doc, jsc[p].opts, "module", jsc[p].gOpts.Module)
       /\ ByPrecedence(jsc[p].doc, jsc[p].opts, "useFlow",
                       jsc[p].gOpts.UseFlow)
       /\ ByPrecedence(jsc[p].doc, jsc[p].opts, "descriptions",
                       jsc[p].gOpts.Descriptions)

\* C25: the keyword of the options getOptions returns, and of every
\* declaration the call puts in the buffer, is "let" if the module of those
\* options is ES6 and "var" otherwise.
C25_DeclMatchesModule ==
    \A p \in Resolved :
       LET decl == IF jsc[p].gOpts.Module = "ES6" THEN es6Decl
                   ELSE commonJSDecl
       IN  /\ jsc[p].gOpts.declStr = decl
           /\ js.mu = p => \A i \in 1..Len(js.buf) : js.buf[i].decl = decl

\* The call of p on the JavaScript Generator is between its Lock and its
\* return.
InGenerate(p) ==
    jsc[p].pc \in {"options", "types", "open", "imports", "output", "close",
                   "defer"}

\* What is in a buffer is of document name alone and begins at indent 0.
OnlyOf(buf, name) ==
    /\ \A i \in 1..Len(buf) : buf[i].doc = name
    /\ buf # <<>> => buf[1].indent = 0

\* Of the calls on one JavaScript Generator at most one is between its Lock
\* and its return, and the mutex is held by that call and by no call that is
\* over, however it ended; the buffer of the generator holds only what the
\* call holding the mutex emitted for its document, from indent 0, and so
\* does the output every call wrote.
Exclusive ==
    /\ \A p, q \in Callers : InGenerate(p) /\ InGenerate(q) => p = q
    /\ \A p \in Callers : InGenerate(p) <=> js.mu = p
    /\ \A p \in Callers :
          /\ js.mu = p => OnlyOf(js.buf, jsc[p].doc.name)
          /\ Len(jsc[p].ops) >= 3
                => OnlyOf(jsc[p].ops[3].content, jsc[p].doc.name)

\* C26: concurrent Generate calls on one JavaScript Generator exclude each
\* other over its buffer and indent (Exclusive, in every state), and a call
\* that holds the mutex releases it in the end, whichever way it leaves
\* Generate, so that a call waiting for the mutex can take it.
C26_CallsExcludeEachOther ==
    /\ []Exclusive
    /\ \A p \in Callers : (js.mu = p) ~> (js.mu = 0)

\* Caller 2 wrote the output for b after the call of caller 1 for a ended
\* with a failed write that left its declarations in the buffer.
C26_Witness ==
    /\ jsc[1].pc = "returned"
    /\ jsc[1].doc.name = <<"a", ".", "gql">>
    /\ Len(jsc[1].ops) >= 3 /\ ~jsc[1].ops[3].ok
    /\ jsc[2].doc.name = <<"b", ".", "graphql">>
    /\ Len(jsc[2].ops) >= 3 /\ jsc[2].ops[3].ok
    /\ jsc[2].ops[3].content # <<>>

\* C21: a Run given the files, generators and flags of the Run before it, in
\* the same environment, ends as that Run did: the same files are left and
\* the same error, or none, is returned.
C21_SameInputsSameOutcome ==
    (pc = "done" /\ prev.done)
       => /\ Written = prev.written
          /\ result = prev.result

\* What the js generator is to leave for the document of file: the file
\* named after it with the extension js opened, the import statement for
\* COMMONJS and the declarations of the document with "var" written to it,
\* and the file closed.
Rendering(file) ==
    LET f == [name |-> << <<file[1], ".", "js">> >>, content |-> <<>>]
    IN  << FileOp("open", f, TRUE),
           FileOp("write", [f EXCEPT !.content = <<"COMMONJS">>], TRUE),
           FileOp("write",
                  [f EXCEPT !.content = <<[decl |-> "var", doc |-> file,
                                           indent |-> 0]>>], TRUE),
           FileOp("close", f, TRUE) >>

\* The Run was given the activation switch of the js generator and one file,
\* which checked without diagnostics, and no write to the output was
\* refused.
OneFileForJs ==
    /\ given \cap geners = {"js_out"}
    /\ Len(args) = 1
    /\ checked /\ errs = 0
    /\ \A i \in 1..Len(jsc[1].ops) :
          jsc[1].ops[i].op = "write" => jsc[1].ops[i].ok

====
